---- MODULE Spec2Model ----
(***************************************************************************)
(* Model of hwp-mcp/main.py, the launcher of test_hwp_controller().        *)
(*                                                                         *)
(* The script is modelled statement by statement.  Two launches of the     *)
(* same script in the same environment (same file system, same initial     *)
(* module search path, same way of naming the script, same delegated       *)
(* function) are modelled, one after the other, from two different         *)
(* working directories; the launches are separate processes and share no   *)
(* state, so their order is immaterial.                                    *)
(*                                                                         *)
(* A path is a record [abs, parts]: abs tells an absolute path from a      *)
(* relative one, parts are its components ("..", a directory name or the   *)
(* file name).  The os.path functions the script calls are computed on     *)
(* that representation.                                                    *)
(***************************************************************************)
EXTENDS Integers, Sequences, FiniteSets, TLC

\* ------------------------------------------------------------- bounds
MaxPathLen == 2     \* entries of the module search path at process start
MaxLines == 1       \* lines the delegated function writes before it ends
MaxCalls == 2       \* cap of the call counter

\* ------------------------------------------------------- environment
Runs == {1, 2}

Abs(parts) == [abs |-> TRUE, parts |-> parts]
Rel(parts) == [abs |-> FALSE, parts |-> parts]

\* The directories of the file system, in a fixed order.
DirSeq == << Abs(<<"a">>), Abs(<<"a", "b">>), Abs(<<"c">>) >>
Dirs == {DirSeq[i] : i \in 1..Len(DirSeq)}
NoDir == Rel(<<>>)

ScriptName == "main.py"
\* The two banners of lines 15 and 21 (Korean in the source) and a line
\* written by the delegated function.
START == "HwpController test starts"
DONE == "HwpController test completed"
TLINE == "delegated output"

\* Exceptions, by type.
NoError == "none"
ModuleNotFoundError == "ModuleNotFoundError"
ImportError == "ImportError"
TestError == "TestError"

\* ---------------------------------------------------------- os.path
RECURSIVE NormParts(_, _, _)
\* os.path.normpath on the components: ".." removes the component before
\* it; at the root of an absolute path it is dropped; a leading ".." of a
\* relative path is kept.
NormParts(isabs, todo, acc) ==
    IF todo = <<>> THEN acc
    ELSE LET c == Head(todo) IN
         IF c = ".."
         THEN IF acc # <<>> /\ acc[Len(acc)] # ".."
              THEN NormParts(isabs, Tail(todo), SubSeq(acc, 1, Len(acc) - 1))
              ELSE IF isabs
                   THEN NormParts(isabs, Tail(todo), acc)
                   ELSE NormParts(isabs, Tail(todo), Append(acc, c))
         ELSE NormParts(isabs, Tail(todo), Append(acc, c))

NormPath(p) == [abs |-> p.abs, parts |-> NormParts(p.abs, p.parts, <<>>)]

\* os.path.join(base, p)
Join(base, p) == IF p.abs THEN p ELSE [abs |-> base.abs, parts |-> base.parts \o p.parts]

\* os.path.abspath(p) in a process whose working directory is wd
AbsPath(wd, p) == NormPath(Join(wd, p))

\* os.path.dirname(p)
DirName(p) == [abs |-> p.abs, parts |-> SubSeq(p.parts, 1, Len(p.parts) - 1)]

RECURSIVE CommonLen(_, _)
CommonLen(s, t) ==
    IF s = <<>> \/ t = <<>> \/ Head(s) # Head(t) THEN 0
    ELSE 1 + CommonLen(Tail(s), Tail(t))

\* The name of a file of directory d as typed relative to the directory wd.
RelTo(wd, d, name) ==
    LET k == CommonLen(wd.parts, d.parts) IN
    Rel([i \in 1..(Len(wd.parts) - k) |-> ".."]
        \o SubSeq(d.parts, k + 1, Len(d.parts)) \o <<name>>)

\* ------------------------------------------------------------- state
VARIABLES
    scriptDir,   \* the directory that holds main.py
    fileAbs,     \* TRUE: __file__ is an absolute path; FALSE: relative to cwd
    mode,        \* "direct": __name__ == "__main__"; "imported": a library
    syspath0,    \* sys.path at process start
    sibKind,     \* hwp_mcp_stdio_server in scriptDir: "absent", "ok", "noattr"
    shadowDir,   \* another directory holding a module of that name, or NoDir
    shadowKind,  \* that module: "ok" or "noattr"
    stubLines,   \* lines test_hwp_controller() writes
    stubRaises,  \* TRUE: test_hwp_controller() then raises TestError
    cwd,         \* per run: the working directory
    file,        \* per run: __file__
    pc,          \* per run: the statement reached
    project_root,\* per run: the module global of line 6, NoDir before it
    sys_path,    \* per run: sys.path
    resolved,    \* per run: the directory whose module the import found
    bound,       \* per run: test_hwp_controller is bound in the launcher
    out,         \* per run: the lines on standard output
    calls,       \* per run: invocations of test_hwp_controller
    callArgs,    \* per run: the argument lists of those invocations
    emitted,     \* per run: lines the delegated call has written so far
    returned,    \* per run: the delegated call returned normally
    error,       \* per run: the exception in flight, NoError if none
    raisedAt,    \* per run: the statement that raised, "none" if none
    status,      \* per run: process exit status, -1 while running
    surfaced     \* per run: the exception that left the launcher uncaught

env == << scriptDir, fileAbs, mode, syspath0, sibKind, shadowDir, shadowKind,
          stubLines, stubRaises, cwd, file >>
vars == << scriptDir, fileAbs, mode, syspath0, sibKind, shadowDir, shadowKind,
           stubLines, stubRaises, cwd, file, pc, project_root, sys_path,
           resolved, bound, out, calls, callArgs, emitted, returned, error,
           raisedAt, status, surfaced >>

\* Sequences of distinct directories of length at most n.
RECURSIVE PathsUpTo(_)
PathsUpTo(n) ==
    IF n = 0 THEN {<<>>}
    ELSE LET shorter == PathsUpTo(n - 1) IN
         shorter \cup {Append(s, d) : s \in {t \in shorter : Len(t) = n - 1},
                                      d \in Dirs}

Distinct(s) == \A i, j \in 1..Len(s) : i # j => s[i] # s[j]

\* The module named hwp_mcp_stdio_server that directory d holds.
ModuleAt(d) ==
    IF d = scriptDir THEN sibKind
    ELSE IF d = shadowDir THEN shadowKind
    ELSE "absent"

\* The import system's path search: the first entry of path, taken relative
\* to the working directory when it is relative, that holds the module;
\* NoDir when none does.
FindModule(path, wd) ==
    LET hits == {i \in 1..Len(path) : ModuleAt(AbsPath(wd, path[i])) # "absent"} IN
    IF hits = {} THEN NoDir
    ELSE AbsPath(wd, path[CHOOSE i \in hits : \A j \in hits : i <= j])

\* A launch is over: the process exited, or the import of the launcher as a
\* library completed or raised.
Terminated(r) == pc[r] \in {"exited", "loaded", "import_raised"}
\* The launches are taken one after the other.
Turn(r) == \A q \in Runs : q < r => Terminated(q)

Init ==
    /\ scriptDir \in Dirs
    /\ fileAbs \in BOOLEAN
    /\ mode \in {"direct", "imported"}
    /\ syspath0 \in {s \in PathsUpTo(MaxPathLen) : Distinct(s)}
    /\ sibKind \in {"absent", "ok", "noattr"}
    /\ shadowDir \in (Dirs \ {scriptDir}) \cup {NoDir}
    /\ shadowKind \in IF shadowDir = NoDir THEN {"ok"} ELSE {"ok", "noattr"}
    /\ stubLines \in 0..MaxLines
    /\ stubRaises \in BOOLEAN
    /\ \E i, j \in 1..Len(DirSeq) :
          /\ i < j
          /\ cwd = (1 :> DirSeq[i]) @@ (2 :> DirSeq[j])
    /\ file = [r \in Runs |->
                 IF fileAbs THEN Join(scriptDir, Rel(<<ScriptName>>))
                 ELSE RelTo(cwd[r], scriptDir, ScriptName)]
    /\ pc = [r \in Runs |-> "start"]
    /\ project_root = [r \in Runs |-> NoDir]
    /\ sys_path = [r \in Runs |-> syspath0]
    /\ resolved = [r \in Runs |-> NoDir]
    /\ bound = [r \in Runs |-> FALSE]
    /\ out = [r \in Runs |-> <<>>]
    /\ calls = [r \in Runs |-> 0]
    /\ callArgs = [r \in Runs |-> <<>>]
    /\ emitted = [r \in Runs |-> 0]
    /\ returned = [r \in Runs |-> FALSE]
    /\ error = [r \in Runs |-> NoError]
    /\ raisedAt = [r \in Runs |-> "none"]
    /\ status = [r \in Runs |-> -1]
    /\ surfaced = [r \in Runs |-> NoError]

\* ----------------------------------------------------------- actions
\* Variant of line 6 without abspath: os.path.dirname(__file__)
ResolveRootRelative(r) ==
    /\ pc[r] = "start"
    /\ Turn(r)
    /\ project_root' = [project_root EXCEPT ![r] = DirName(file[r])]
    /\ pc' = [pc EXCEPT ![r] = "rooted"]
    /\ UNCHANGED << env, sys_path, resolved, bound, out, calls, callArgs,
                    emitted, returned, error, raisedAt, status, surfaced >>

\* Variant of line 6 that takes the working directory: os.getcwd()
ResolveRootCwd(r) ==
    /\ pc[r] = "start"
    /\ Turn(r)
    /\ project_root' = [project_root EXCEPT ![r] = cwd[r]]
    /\ pc' = [pc EXCEPT ![r] = "rooted"]
    /\ UNCHANGED << env, sys_path, resolved, bound, out, calls, callArgs,
                    emitted, returned, error, raisedAt, status, surfaced >>

\* line 6: project_root = os.path.dirname(os.path.abspath(__file__))
ResolveRoot(r) ==
    /\ pc[r] = "start"
    /\ Turn(r)
    /\ project_root' = [project_root EXCEPT ![r] = DirName(AbsPath(cwd[r], file[r]))]
    /\ pc' = [pc EXCEPT ![r] = "rooted"]
    /\ UNCHANGED << env, sys_path, resolved, bound, out, calls, callArgs,
                    emitted, returned, error, raisedAt, status, surfaced >>

\* Variant of line 7 moved under the guard: the path is extended only when
\* the script is executed directly
AppendPathGuarded(r) ==
    /\ pc[r] = "rooted"
    /\ sys_path' = [sys_path EXCEPT ![r] =
                        IF mode = "direct" THEN Append(sys_path[r], project_root[r])
                        ELSE sys_path[r]]
    /\ pc' = [pc EXCEPT ![r] = "appended"]
    /\ UNCHANGED << env, project_root, resolved, bound, out, calls, callArgs,
                    emitted, returned, error, raisedAt, status, surfaced >>

\* Variant of line 7 that puts the directory first: sys.path.insert(0, ...)
AppendPathFront(r) ==
    /\ pc[r] = "rooted"
    /\ sys_path' = [sys_path EXCEPT ![r] = <<project_root[r]>> \o sys_path[r]]
    /\ pc' = [pc EXCEPT ![r] = "appended"]
    /\ UNCHANGED << env, project_root, resolved, bound, out, calls, callArgs,
                    emitted, returned, error, raisedAt, status, surfaced >>

\* line 7: sys.path.append(project_root)
AppendPath(r) ==
    /\ pc[r] = "rooted"
    /\ sys_path' = [sys_path EXCEPT ![r] = Append(sys_path[r], project_root[r])]
    /\ pc' = [pc EXCEPT ![r] = "appended"]
    /\ UNCHANGED << env, project_root, resolved, bound, out, calls, callArgs,
                    emitted, returned, error, raisedAt, status, surfaced >>

\* line 9: from hwp_mcp_stdio_server import test_hwp_controller
\* No module found: ModuleNotFoundError.  A module found that does not
\* define the name: ImportError.  Otherwise the name is bound.
ImportSibling(r) ==
    /\ pc[r] = "appended"
    /\ LET found == FindModule(sys_path[r], cwd[r])
           kind == IF found = NoDir THEN "absent" ELSE ModuleAt(found)
       IN /\ resolved' = [resolved EXCEPT ![r] = found]
          /\ bound' = [bound EXCEPT ![r] = (kind = "ok")]
          /\ error' = [error EXCEPT ![r] =
                          CASE kind = "absent" -> ModuleNotFoundError
                            [] kind = "noattr" -> ImportError
                            [] OTHER -> NoError]
          /\ raisedAt' = [raisedAt EXCEPT ![r] =
                             IF kind = "ok" THEN "none" ELSE "import"]
          /\ pc' = [pc EXCEPT ![r] =
                       IF kind = "ok" THEN "defined" ELSE "toplevel_raised"]
    /\ UNCHANGED << env, project_root, sys_path, out, calls, callArgs,
                    emitted, returned, status, surfaced >>

\* Variant of lines 23-25 without the guard: main() is always invoked
GuardAlways(r) ==
    /\ pc[r] = "defined"
    /\ pc' = [pc EXCEPT ![r] = "main"]
    /\ UNCHANGED << env, project_root, sys_path, resolved, bound, out, calls,
                    callArgs, emitted, returned, error, raisedAt, status,
                    surfaced >>

\* lines 23-25: if __name__ == "__main__": main()
Guard(r) ==
    /\ pc[r] = "defined"
    /\ pc' = [pc EXCEPT ![r] = IF mode = "direct" THEN "main" ELSE "loaded"]
    /\ UNCHANGED << env, project_root, sys_path, resolved, bound, out, calls,
                    callArgs, emitted, returned, error, raisedAt, status,
                    surfaced >>

\* Variant of line 15 that writes nothing before the call
PrintStartSkipped(r) ==
    /\ pc[r] = "main"
    /\ pc' = [pc EXCEPT ![r] = "started"]
    /\ UNCHANGED << env, project_root, sys_path, resolved, bound, out, calls,
                    callArgs, emitted, returned, error, raisedAt, status,
                    surfaced >>

\* line 15: print(start banner)
PrintStart(r) ==
    /\ pc[r] = "main"
    /\ out' = [out EXCEPT ![r] = Append(out[r], START)]
    /\ pc' = [pc EXCEPT ![r] = "started"]
    /\ UNCHANGED << env, project_root, sys_path, resolved, bound, calls,
                    callArgs, emitted, returned, error, raisedAt, status,
                    surfaced >>

\* line 19: test_hwp_controller() is entered, with no arguments
CallTest(r) ==
    /\ pc[r] = "started"
    /\ calls[r] < MaxCalls
    /\ calls' = [calls EXCEPT ![r] = calls[r] + 1]
    /\ callArgs' = [callArgs EXCEPT ![r] = Append(callArgs[r], <<>>)]
    /\ emitted' = [emitted EXCEPT ![r] = 0]
    /\ pc' = [pc EXCEPT ![r] = "in_call"]
    /\ UNCHANGED << env, project_root, sys_path, resolved, bound, out,
                    returned, error, raisedAt, status, surfaced >>

\* line 19, inside the delegated function: it writes a line of its own
StubEmit(r) ==
    /\ pc[r] = "in_call"
    /\ emitted[r] < stubLines
    /\ out' = [out EXCEPT ![r] = Append(out[r], TLINE)]
    /\ emitted' = [emitted EXCEPT ![r] = emitted[r] + 1]
    /\ UNCHANGED << env, pc, project_root, sys_path, resolved, bound, calls,
                    callArgs, returned, error, raisedAt, status, surfaced >>

\* line 19: the delegated function returns normally
StubReturn(r) ==
    /\ pc[r] = "in_call"
    /\ emitted[r] = stubLines
    /\ ~stubRaises
    /\ returned' = [returned EXCEPT ![r] = TRUE]
    /\ pc' = [pc EXCEPT ![r] = "call_done"]
    /\ UNCHANGED << env, project_root, sys_path, resolved, bound, out, calls,
                    callArgs, emitted, error, raisedAt, status, surfaced >>

\* line 19: the delegated function raises
StubRaise(r) ==
    /\ pc[r] = "in_call"
    /\ emitted[r] = stubLines
    /\ stubRaises
    /\ error' = [error EXCEPT ![r] = TestError]
    /\ raisedAt' = [raisedAt EXCEPT ![r] = "call"]
    /\ pc' = [pc EXCEPT ![r] = "call_raised"]
    /\ UNCHANGED << env, project_root, sys_path, resolved, bound, out, calls,
                    callArgs, emitted, returned, status, surfaced >>

\* Variant of main() with a handler around line 19 that swallows the
\* exception and goes on to line 21
MainCatches(r) ==
    /\ pc[r] = "call_raised"
    /\ error' = [error EXCEPT ![r] = NoError]
    /\ pc' = [pc EXCEPT ![r] = "call_done"]
    /\ UNCHANGED << env, project_root, sys_path, resolved, bound, out, calls,
                    callArgs, emitted, returned, raisedAt, status, surfaced >>

\* Variant of main() with a handler around line 19 that calls again
MainRetries(r) ==
    /\ pc[r] = "call_raised"
    /\ error' = [error EXCEPT ![r] = NoError]
    /\ pc' = [pc EXCEPT ![r] = "started"]
    /\ UNCHANGED << env, project_root, sys_path, resolved, bound, out, calls,
                    callArgs, emitted, returned, raisedAt, status, surfaced >>

\* lines 11-21: main() has no handler around line 19, so the exception
\* leaves main() and line 21 is skipped
MainUnwind(r) ==
    /\ pc[r] = "call_raised"
    /\ pc' = [pc EXCEPT ![r] = "toplevel_raised"]
    /\ UNCHANGED << env, project_root, sys_path, resolved, bound, out, calls,
                    callArgs, emitted, returned, error, raisedAt, status,
                    surfaced >>

\* line 21: print(completion banner)
PrintDone(r) ==
    /\ pc[r] = "call_done"
    /\ out' = [out EXCEPT ![r] = Append(out[r], DONE)]
    /\ pc' = [pc EXCEPT ![r] = "main_done"]
    /\ UNCHANGED << env, project_root, sys_path, resolved, bound, calls,
                    callArgs, emitted, returned, error, raisedAt, status,
                    surfaced >>

\* line 25 returns and the script ends: the process exits with status 0
ExitNormally(r) ==
    /\ pc[r] = "main_done"
    /\ status' = [status EXCEPT ![r] = 0]
    /\ pc' = [pc EXCEPT ![r] = "exited"]
    /\ UNCHANGED << env, project_root, sys_path, resolved, bound, out, calls,
                    callArgs, emitted, returned, error, raisedAt, surfaced >>

\* Variant with a top-level handler that raises an error of the launcher's
\* own in place of the one caught
PropagateWrapped(r) ==
    /\ pc[r] = "toplevel_raised"
    /\ surfaced' = [surfaced EXCEPT ![r] = "LauncherError"]
    /\ status' = [status EXCEPT ![r] = IF mode = "direct" THEN 1 ELSE -1]
    /\ pc' = [pc EXCEPT ![r] = IF mode = "direct" THEN "exited" ELSE "import_raised"]
    /\ UNCHANGED << env, project_root, sys_path, resolved, bound, out, calls,
                    callArgs, emitted, returned, error, raisedAt >>

\* Variant with a top-level handler that reports the error and lets the
\* script end normally
PropagateExitZero(r) ==
    /\ pc[r] = "toplevel_raised"
    /\ surfaced' = [surfaced EXCEPT ![r] = error[r]]
    /\ status' = [status EXCEPT ![r] = IF mode = "direct" THEN 0 ELSE -1]
    /\ pc' = [pc EXCEPT ![r] = IF mode = "direct" THEN "exited" ELSE "import_raised"]
    /\ UNCHANGED << env, project_root, sys_path, resolved, bound, out, calls,
                    callArgs, emitted, returned, error, raisedAt >>

\* No statement of the module handles an exception (lines 6-25 hold no
\* try): it leaves the module as it was raised.  A directly executed script
\* then ends with status 1; an importing program gets the exception from
\* its import statement.
Propagate(r) ==
    /\ pc[r] = "toplevel_raised"
    /\ surfaced' = [surfaced EXCEPT ![r] = error[r]]
    /\ status' = [status EXCEPT ![r] = IF mode = "direct" THEN 1 ELSE -1]
    /\ pc' = [pc EXCEPT ![r] = IF mode = "direct" THEN "exited" ELSE "import_raised"]
    /\ UNCHANGED << env, project_root, sys_path, resolved, bound, out, calls,
                    callArgs, emitted, returned, error, raisedAt >>

Next ==
    \E r \in Runs :
        \/ ResolveRoot(r)
        \/ AppendPath(r)
        \/ ImportSibling(r)
        \/ Guard(r)
        \/ PrintStart(r)
        \/ CallTest(r)
        \/ StubEmit(r)
        \/ StubReturn(r)
        \/ StubRaise(r)
        \/ MainUnwind(r)
        \/ PrintDone(r)
        \/ ExitNormally(r)
        \/ Propagate(r)

Spec == Init /\ [][Next]_vars

\* ------------------------------------------------------------ claims
Range(s) == {s[i] : i \in 1..Len(s)}
Lines(n) == [i \in 1..n |-> TLINE]
BeforeAppend(r) == pc[r] \in {"start", "rooted"}
BeforeImport(r) == pc[r] \in {"start", "rooted", "appended"}
InMain(r) == pc[r] \in {"main", "started", "in_call", "call_done",
                        "call_raised", "main_done"}

\* C1: the start banner is on standard output before the delegated call
\* begins, the completion banner is written only after the call has
\* returned, and a directly executed run whose call returned ends with
\* exactly: start banner, the delegated call's lines, completion banner.
C1_BannerCallBanner ==
    \A r \in Runs :
        /\ calls[r] > 0 => out[r] # <<>> /\ out[r][1] = START
        /\ pc[r] = "in_call" => out[r] = <<START>> \o Lines(emitted[r])
        /\ DONE \in Range(out[r]) => returned[r]
        /\ returned[r] /\ pc[r] = "exited" =>
               out[r] = <<START>> \o Lines(stubLines) \o <<DONE>>

C1_Witness ==
    \E r \in Runs : pc[r] = "exited" /\ returned[r] /\ stubLines > 0

\* C2: once the delegated call has raised, main() never resumes (no state
\* of main() after line 19 is reached), the output is and stays the start
\* banner followed by the delegated call's partial output, the completion
\* banner is never written, and the error that reaches the process boundary
\* is the one the call raised.
C2_RaiseSkipsCompletion ==
    \A r \in Runs :
        raisedAt[r] = "call" =>
            /\ pc[r] \in {"call_raised", "toplevel_raised", "exited"}
            /\ out[r] = <<START>> \o Lines(emitted[r])
            /\ DONE \notin Range(out[r])
            /\ error[r] = TestError
            /\ pc[r] = "exited" => surfaced[r] = TestError

C2_Witness ==
    \E r \in Runs : raisedAt[r] = "call" /\ pc[r] = "exited" /\ emitted[r] > 0

\* C3: when the module is imported as a library, main() is never entered:
\* nothing is written and the delegated function is never called; main()
\* is entered only in a direct execution.
C3_ImportDoesNotRunMain ==
    \A r \in Runs :
        /\ mode = "imported" => out[r] = <<>> /\ calls[r] = 0 /\ ~InMain(r)
        /\ InMain(r) \/ calls[r] > 0 \/ out[r] # <<>> => mode = "direct"

C3_Witness ==
    \E r \in Runs : mode = "imported" /\ pc[r] = "loaded"

\* C4 as stated: when the script is imported as a library, the module
\* search path is left unchanged and the sibling module is not imported.
C4_ImportLeavesPathAndModules ==
    \A r \in Runs :
        mode = "imported" =>
            /\ sys_path[r] = syspath0
            /\ resolved[r] = NoDir
            /\ ~bound[r]

\* C4 amended: the guard conditionally runs main() only.  Lines 6-9 run at
\* module top level in both modes: once the module has been loaded as a
\* library, the search path has gained the launcher's directory and the
\* sibling's test function has been imported, while nothing has been
\* written and the delegated function has not been called.
C4_TopLevelRunsInBothModes ==
    \A r \in Runs :
        /\ ~BeforeAppend(r) => sys_path[r] = Append(syspath0, scriptDir)
        /\ pc[r] = "loaded" =>
               /\ mode = "imported"
               /\ resolved[r] # NoDir
               /\ bound[r]
               /\ out[r] = <<>>
               /\ calls[r] = 0
               /\ error[r] = NoError

C4_Witness ==
    \E r \in Runs :
        /\ mode = "imported"
        /\ pc[r] = "loaded"
        /\ sys_path[r] # syspath0
        /\ resolved[r] = scriptDir

\* C5: an error of the import step or of the call step ends the run at that
\* step: after a failed import nothing is written and the delegated
\* function is never called; after either failure the completion banner is
\* never written, and the error that leaves the launcher is the error that
\* was raised, unchanged.
C5_ErrorsEndTheRunUnwrapped ==
    \A r \in Runs :
        /\ raisedAt[r] = "import" =>
               /\ error[r] \in {ModuleNotFoundError, ImportError}
               /\ pc[r] \in {"toplevel_raised", "exited", "import_raised"}
               /\ out[r] = <<>>
               /\ calls[r] = 0
               /\ ~bound[r]
        /\ raisedAt[r] # "none" =>
               /\ error[r] # NoError
               /\ DONE \notin Range(out[r])
               /\ ~InMain(r) \/ pc[r] = "call_raised"
               /\ Terminated(r) => surfaced[r] = error[r]
        /\ Terminated(r) /\ surfaced[r] # NoError => raisedAt[r] # "none"

C5_Witness ==
    \E r \in Runs :
        /\ raisedAt[r] = "import"
        /\ pc[r] = "exited"
        /\ surfaced[r] = ImportError

\* C6: in one run the delegated function is invoked at most once, each
\* time with no arguments; a direct execution whose import succeeded has
\* invoked it exactly once when it ends; after the call has failed the
\* count stays at one.
C6_CalledAtMostOnce ==
    \A r \in Runs :
        /\ calls[r] <= 1
        /\ Len(callArgs[r]) = calls[r]
        /\ \A i \in 1..Len(callArgs[r]) : callArgs[r][i] = <<>>
        /\ mode = "direct" /\ bound[r] /\ Terminated(r) => calls[r] = 1
        /\ ~bound[r] => calls[r] = 0
        /\ raisedAt[r] = "call" => calls[r] = 1

C6_Witness ==
    \E r \in Runs : raisedAt[r] = "call" /\ pc[r] = "exited" /\ calls[r] = 1

\* C7: a direct execution ends with status 0 exactly when the delegated
\* call returned normally, and with a non-zero status when the call raised;
\* with a delegated function that writes nothing the output is then the two
\* banners, respectively the start banner alone.
C7_ExitStatus ==
    \A r \in Runs :
        mode = "direct" /\ pc[r] = "exited" =>
            /\ status[r] = 0 <=> returned[r]
            /\ returned[r] /\ stubLines = 0 => out[r] = <<START, DONE>>
            /\ raisedAt[r] = "call" =>
                   /\ status[r] # 0
                   /\ stubLines = 0 => out[r] = <<START>>

C7_Witness ==
    \E r \in Runs :
        pc[r] = "exited" /\ raisedAt[r] = "call" /\ stubLines = 0 /\ status[r] = 1

\* C8: two runs that differ only in the working directory they are
\* launched from add the same directory to the search path, find the same
\* module (or both none), and end with the same output, the same number
\* of delegated calls, the same error and the same status; and wherever
\* the run is launched from, a sibling module that exists is found.
C8_WorkingDirectoryIrrelevant ==
    /\ \A r \in Runs :
           ~BeforeImport(r) /\ sibKind # "absent" => resolved[r] # NoDir
    /\ \A r, q \in Runs :
           Terminated(r) /\ Terminated(q) =>
               /\ project_root[r] = project_root[q]
               /\ sys_path[r] = sys_path[q]
               /\ resolved[r] = resolved[q]
               /\ bound[r] = bound[q]
               /\ out[r] = out[q]
               /\ calls[r] = calls[q]
               /\ surfaced[r] = surfaced[q]
               /\ status[r] = status[q]
               /\ pc[r] = pc[q]

C8_Witness ==
    /\ cwd[1] # cwd[2]
    /\ file[1] # file[2]
    /\ pc[1] = "exited" /\ pc[2] = "exited"
    /\ calls[1] = 1 /\ calls[2] = 1
    /\ syspath0 = <<>>

\* C9: project_root is unset until line 6 has run, which is before the
\* search path is extended, before the import and before main(); from then
\* on, in every state, it is the absolute path of the directory that holds
\* the script, and it is the directory the search path was extended with.
C9_RootIsTheScriptDirectory ==
    \A r \in Runs :
        /\ pc[r] = "start" =>
               /\ project_root[r] = NoDir
               /\ sys_path[r] = syspath0
               /\ resolved[r] = NoDir
               /\ calls[r] = 0
        /\ pc[r] # "start" => project_root[r] = scriptDir /\ project_root[r].abs
        /\ ~BeforeAppend(r) => sys_path[r][Len(sys_path[r])] = scriptDir

C9_Witness ==
    \E r \in Runs :
        /\ pc[r] = "exited"
        /\ cwd[r] # scriptDir
        /\ ~fileAbs
        /\ calls[r] = 1

\* C10: the extension leaves the entries the search path had in place and
\* in order and puts the launcher's directory last; so a same-named module
\* in an earlier entry, with no sibling module in an entry before it, is
\* the one the import finds, not the sibling.
C10_AppendedLastAndShadowed ==
    \A r \in Runs :
        /\ ~BeforeAppend(r) =>
               /\ Len(sys_path[r]) = Len(syspath0) + 1
               /\ SubSeq(sys_path[r], 1, Len(syspath0)) = syspath0
               /\ sys_path[r][Len(sys_path[r])] = project_root[r]
        /\ ~BeforeImport(r) =>
               \A i \in 1..Len(syspath0) :
                   /\ syspath0[i] = shadowDir
                   /\ \A j \in 1..(i - 1) :
                          syspath0[j] # scriptDir \/ sibKind = "absent"
                   => resolved[r] = shadowDir /\ resolved[r] # scriptDir

C10_Witness ==
    \E r \in Runs :
        /\ pc[r] = "exited"
        /\ sibKind = "ok"
        /\ resolved[r] = shadowDir
        /\ Len(syspath0) = 2
        /\ calls[r] = 1
====
